---- MODULE Spec2Model ----
(***************************************************************************)
(* cargo-spdx: document assembly (src/document/mod.rs), the key-value      *)
(* serializer (src/format/key_value.rs), the output manager                *)
(* (src/output.rs) and the workspace-SBOM flow of main (src/main.rs).      *)
(*                                                                         *)
(* Strings are TLA+ strings, format!() is string concatenation.  A file's  *)
(* content is the sequence of the units written to it (one unit per        *)
(* writeln! of the key-value serializer, one per chunk of an external      *)
(* encoder).  The buffered writer's capacity is counted in the same units. *)
(***************************************************************************)
EXTENDS Integers, Sequences, FiniteSets, TLC

VARIABLES
  pc,       \* position of the running operation
  to,       \* OutputManager.to (a path: sequence of components)
  force,    \* OutputManager.force
  format,   \* OutputManager.format
  doc,      \* the SPDX document (its document_creation_information)
  fs,       \* the filesystem: path -> node
  fs0,      \* the filesystem as it was when the operation started
  buf,      \* BufWriter's buffer (units accepted, not yet in the file)
  kv,       \* key_value::write position: [stmt, item, accepted]
  result,   \* the result of write_document, and so of main
  user,     \* what get_current_user() returned
  ioerr,    \* whether an operation on the destination file has failed
  ck,       \* calculate_checksums: [pc, content, pos, sha1, sha256, result]
  pk        \* from_metadata_package: [meta, results]

vars == <<pc, to, force, format, doc, fs, fs0, buf, kv, result, user, ioerr, ck, pk>>
wdVars == <<pc, to, force, format, doc, fs, fs0, buf, kv, result, user, ioerr>>

---------------------------------------------------------------------------
(* Bounds *)
BufCap == 2
MaxCreators == 2

---------------------------------------------------------------------------
(* Option<T> *)
None == [some |-> FALSE, v |-> ""]
Some(x) == [some |-> TRUE, v |-> x]

(* Paths: sequences of components.  "/" is the root component, ".." the    *)
(* parent component, anything else a normal component.                     *)
IsNormal(c) == c \notin {"/", "..", "."}

\* Path::file_name(): the last component when it is a normal one.
FileName(p) ==
  IF p = <<>> THEN None
  ELSE IF IsNormal(p[Len(p)]) THEN Some(p[Len(p)]) ELSE None

PathArgs == { <<>>, <<"/">>, <<"..">>, <<"out", "..">>, <<"out">>, <<"sbom.spdx">> }
RootNames == { "pkg" }
Formats == {"KeyValue", "Json", "Yaml", "Rdf"}

\* Format::extension(): the file extension of each format.
Extension(fmt) ==
  CASE fmt = "KeyValue" -> ".spdx"
    [] fmt = "Json" -> ".json"
    [] fmt = "Yaml" -> ".yaml"
    [] fmt = "Rdf" -> ".rdf"

\* The names the filesystem tracks: the normal names a destination can end
\* in, given by the user or derived from the root package's name.
FilePaths ==
  { <<"out">>, <<"sbom.spdx">> } \cup { << n \o Extension(f) >> : n \in RootNames, f \in Formats }

Absent == [kind |-> "absent", content |-> <<>>]
Dir == [kind |-> "dir", content |-> <<>>]
File(c) == [kind |-> "file", content |-> c]
OldContent == <<"old line 1", "old line 2">>

\* The node a path names: paths outside the tracked names are the empty
\* path (nothing) or end in the root or the parent component (a directory).
NodeAt(f, p) ==
  IF p \in DOMAIN f THEN f[p]
  ELSE IF p = <<>> THEN Absent ELSE Dir

IsDirPath(f, p) == NodeAt(f, p).kind = "dir"
Exists(f, p) == NodeAt(f, p).kind # "absent"

---------------------------------------------------------------------------
(* key_value.rs: the statements of write(), in source order *)

\* Mutant: the Created line is written before the Creator lines.
KvStmts_CreatedBeforeCreators(d) == <<
  [kind |-> "one", key |-> "SPDXVersion: ", val |-> Some(d.spdx_version)],
  [kind |-> "one", key |-> "DataLicense: ", val |-> Some(d.data_license)],
  [kind |-> "one", key |-> "SPDXID: ", val |-> Some(d.spdx_identifier)],
  [kind |-> "one", key |-> "DocumentName: ", val |-> Some(d.document_name)],
  [kind |-> "one", key |-> "DocumentNamespace: ", val |-> Some(d.spdx_document_namespace)],
  [kind |-> "opt", key |-> "LicenseListVersion: ", val |-> d.license_list_version],
  [kind |-> "one", key |-> "Created: ", val |-> Some(d.created)],
  [kind |-> "all", key |-> "Creator: ", val |-> None],
  [kind |-> "opt", key |-> "CreatorComment: ", val |-> d.creator_comment],
  [kind |-> "opt", key |-> "DocumentComment: ", val |-> d.document_comment] >>

\* The write_field! statements of write(), in source order: a mandatory
\* field ("one"), an optional field ("opt"), an iterable field ("all").
KvStmts(d) == <<
  [kind |-> "one", key |-> "SPDXVersion: ", val |-> Some(d.spdx_version)],
  [kind |-> "one", key |-> "DataLicense: ", val |-> Some(d.data_license)],
  [kind |-> "one", key |-> "SPDXID: ", val |-> Some(d.spdx_identifier)],
  [kind |-> "one", key |-> "DocumentName: ", val |-> Some(d.document_name)],
  [kind |-> "one", key |-> "DocumentNamespace: ", val |-> Some(d.spdx_document_namespace)],
  [kind |-> "opt", key |-> "LicenseListVersion: ", val |-> d.license_list_version],
  [kind |-> "all", key |-> "Creator: ", val |-> None],
  [kind |-> "one", key |-> "Created: ", val |-> Some(d.created)],
  [kind |-> "opt", key |-> "CreatorComment: ", val |-> d.creator_comment],
  [kind |-> "opt", key |-> "DocumentComment: ", val |-> d.document_comment] >>

\* The line a writeln!(w, "<key>{}", value) produces.
KvLine(key, value) == key \o value

---------------------------------------------------------------------------
(* std::io::BufWriter over the destination file *)

\* flush_buf(): the inner writes put a prefix of the buffer into the file;
\* what was written leaves the buffer; Ok only when all of it was written.
FlushBuf(b, content) ==
  { [buf |-> SubSeq(b, k + 1, Len(b)),
     file |-> content \o SubSeq(b, 1, k),
     ok |-> (k = Len(b))] : k \in 0..Len(b) }

\* write_all(unit): a full buffer is flushed first (its error is returned
\* and the unit is not accepted), then the unit is buffered.
BufWriteAll(b, content, unit) ==
  IF Len(b) + 1 > BufCap
  THEN { IF o.ok THEN [o EXCEPT !.buf = <<unit>>] ELSE o : o \in FlushBuf(b, content) }
  ELSE { [buf |-> Append(b, unit), file |-> content, ok |-> TRUE] }

\* File::create(path): fails on a directory or an unusable path and may
\* fail on any other (permissions, missing parent); on success the file
\* exists and is empty.
FileCreate(f, p) ==
  { [ok |-> FALSE, fs |-> f] } \cup
  ( IF p \in DOMAIN f /\ f[p].kind # "dir"
    THEN { [ok |-> TRUE, fs |-> [f EXCEPT ![p] = File(<<>>)]] }
    ELSE {} )

---------------------------------------------------------------------------
(* The encoders of serde_json / serde_yaml: opaque chunks of output *)
EncChunks(fmt, d) ==
  << fmt \o " begin", fmt \o " document " \o d.document_name, fmt \o " end" >>

---------------------------------------------------------------------------
(* output.rs: OutputManager::write_document, step by step *)

Finish(res) ==
  /\ result' = res
  /\ pc' = "done"

\* Mutant: the is_dir() check is missing.
ValidateDestination_NoDirCheck ==
  /\ pc = "wd_validate"
  /\ IF ~FileName(to).some
     THEN Finish("Err: missing output file name")
     ELSE pc' = "wd_get_writer" /\ result' = result
  /\ UNCHANGED <<user, ck, pk, to, force, format, doc, fs, fs0, buf, kv, ioerr>>

\* write_document lines 33-39: the destination has a file name and is not
\* a directory.
ValidateDestination ==
  /\ pc = "wd_validate"
  /\ IF ~FileName(to).some
     THEN Finish("Err: missing output file name")
     ELSE IF IsDirPath(fs, to)
     THEN Finish("Err: output can't be a directory")
     ELSE pc' = "wd_get_writer" /\ result' = result
  /\ UNCHANGED <<user, ck, pk, to, force, format, doc, fs, fs0, buf, kv, ioerr>>

\* get_writer: refuse an existing destination unless forced, else create
\* (truncate) the file and wrap it in a BufWriter.
GetWriter ==
  /\ pc = "wd_get_writer"
  /\ IF ~force /\ Exists(fs, to)
     THEN Finish("Err: output file already exists") /\ fs' = fs /\ ioerr' = ioerr
     ELSE \E o \in FileCreate(fs, to) :
            /\ fs' = o.fs
            /\ ioerr' = (ioerr \/ ~o.ok)
            /\ IF o.ok THEN pc' = "wd_dispatch" /\ result' = result
                       ELSE Finish("Err: cannot create output file")
  /\ buf' = << >>
  /\ UNCHANGED <<user, ck, pk, to, force, format, doc, fs0, kv>>

\* write_document lines 45-50: the match on the format.
Dispatch ==
  /\ pc = "wd_dispatch"
  /\ IF format = "KeyValue" THEN pc' = "kv" /\ result' = result
     ELSE IF format \in {"Json", "Yaml"} THEN pc' = "enc" /\ result' = result
     ELSE pc' = "wd_drop" /\ result' = "Err: Rdf format not yet implemented"
  /\ kv' = [stmt |-> 1, item |-> 1]
  /\ UNCHANGED <<user, ck, pk, to, force, format, doc, fs, fs0, buf, ioerr>>

\* One write into the buffered writer; `?` returns the error.
Write(unit, next) ==
  \E o \in BufWriteAll(buf, fs[to].content, unit) :
    /\ buf' = o.buf
    /\ fs' = [fs EXCEPT ![to].content = o.file]
    /\ ioerr' = (ioerr \/ ~o.ok)
    /\ IF o.ok
       THEN kv' = next /\ pc' = pc /\ result' = result
       ELSE kv' = kv /\ pc' = "wd_drop" /\ result' = "Err: write failed"

NextStmt == [stmt |-> kv.stmt + 1, item |-> 1]

\* write_field!(w, fmt, field)
KvWriteField ==
  /\ pc = "kv" /\ kv.stmt <= Len(KvStmts(doc))
  /\ LET s == KvStmts(doc)[kv.stmt] IN
       /\ s.kind = "one"
       /\ Write(KvLine(s.key, s.val.v), NextStmt)
  /\ UNCHANGED <<user, ck, pk, to, force, format, doc, fs0>>

\* write_field!(@opt, w, fmt, field)
KvWriteOpt ==
  /\ pc = "kv" /\ kv.stmt <= Len(KvStmts(doc))
  /\ LET s == KvStmts(doc)[kv.stmt] IN
       /\ s.kind = "opt"
       /\ IF s.val.some
          THEN Write(KvLine(s.key, s.val.v), NextStmt)
          ELSE kv' = NextStmt /\ UNCHANGED <<pc, result, buf, fs, ioerr>>
  /\ UNCHANGED <<user, ck, pk, to, force, format, doc, fs0>>

\* write_field!(@all, w, fmt, field)
KvWriteAll ==
  /\ pc = "kv" /\ kv.stmt <= Len(KvStmts(doc))
  /\ LET s == KvStmts(doc)[kv.stmt] IN
       /\ s.kind = "all"
       /\ IF kv.item <= Len(doc.creators)
          THEN Write(KvLine(s.key, doc.creators[kv.item]), [kv EXCEPT !.item = @ + 1])
          ELSE kv' = NextStmt /\ UNCHANGED <<pc, result, buf, fs, ioerr>>
  /\ UNCHANGED <<user, ck, pk, to, force, format, doc, fs0>>

\* key_value::write line 84: Ok(())
KvReturn ==
  /\ pc = "kv" /\ kv.stmt > Len(KvStmts(doc))
  /\ pc' = "wd_drop" /\ result' = "Ok"
  /\ UNCHANGED <<user, ck, pk, to, force, format, doc, fs, fs0, buf, kv, ioerr>>

\* serde_json::to_writer_pretty / serde_yaml::to_writer: one chunk.
EncWrite ==
  /\ pc = "enc" /\ kv.item <= Len(EncChunks(format, doc))
  /\ Write(EncChunks(format, doc)[kv.item], [kv EXCEPT !.item = @ + 1])
  /\ UNCHANGED <<user, ck, pk, to, force, format, doc, fs0>>

\* The encoder returns.  serde_json does not flush the writer; whether the
\* YAML encoder does is not fixed by this repository: either may happen.
EncReturn ==
  /\ pc = "enc" /\ kv.item > Len(EncChunks(format, doc))
  /\ \E flush \in (IF format = "Yaml" THEN BOOLEAN ELSE {FALSE}) :
       IF flush
       THEN \E o \in FlushBuf(buf, fs[to].content) :
              /\ buf' = o.buf
              /\ fs' = [fs EXCEPT ![to].content = o.file]
              /\ ioerr' = (ioerr \/ ~o.ok)
              /\ result' = IF o.ok THEN "Ok" ELSE "Err: write failed"
       ELSE result' = "Ok" /\ UNCHANGED <<buf, fs, ioerr>>
  /\ pc' = "wd_drop"
  /\ UNCHANGED <<user, ck, pk, to, force, format, doc, fs0, kv>>

\* The writer goes out of scope: BufWriter's Drop flushes the buffer and
\* discards the flush's result.
DropWriter ==
  /\ pc = "wd_drop"
  /\ \E o \in FlushBuf(buf, fs[to].content) :
       /\ buf' = o.buf
       /\ fs' = [fs EXCEPT ![to].content = o.file]
       /\ ioerr' = (ioerr \/ ~o.ok)
  /\ pc' = "done"
  /\ UNCHANGED <<user, ck, pk, to, force, format, doc, fs0, kv, result>>

WriteDocument ==
  \/ ValidateDestination
  \/ GetWriter
  \/ Dispatch
  \/ KvWriteField
  \/ KvWriteOpt
  \/ KvWriteAll
  \/ KvReturn
  \/ EncWrite
  \/ EncReturn
  \/ DropWriter

---------------------------------------------------------------------------
(* Inputs of write_document *)
RECURSIVE SeqsUpTo(_, _)
SeqsUpTo(S, n) ==
  IF n = 0 THEN { << >> }
  ELSE SeqsUpTo(S, n - 1) \cup
       { Append(s, x) : s \in { t \in SeqsUpTo(S, n - 1) : Len(t) = n - 1 }, x \in S }

CreatorStrs == { "Person: Jane Doe (jane@x.io)", "Tool: cargo-spdx 0.1.0" }

Docs ==
  [ spdx_version : {"SPDX-2.2"},
    data_license : {"CC0-1.0"},
    spdx_identifier : {"SPDXRef-DOCUMENT"},
    document_name : {"sbom.spdx"},
    spdx_document_namespace : {"https://spdx.org/spdxdocs/x"},
    license_list_version : {None, Some("3.16")},
    creators : SeqsUpTo(CreatorStrs, MaxCreators),
    created : {"2022-01-01 00:00:00 UTC"},
    creator_comment : {None, Some("made by hand")},
    document_comment : {None, Some("a document")} ]

\* Filesystems: nothing, or one tracked name holding a directory or a file.
InitialFs ==
  { [q \in FilePaths |-> Absent] } \cup
  { [q \in FilePaths |-> IF q = p THEN n ELSE Absent] :
      p \in FilePaths, n \in {Dir, File(OldContent)} }

NoUser == [ok |-> FALSE, name |-> "", email |-> None]
IdleCk == [pc |-> "idle", content |-> << >>, pos |-> 0, sha1 |-> << >>, sha256 |-> << >>,
           result |-> [ok |-> FALSE, sums |-> << >>]]
IdlePk == [meta |-> [name |-> ""], results |-> << >>]

Init ==
  /\ pc = "wd_validate"
  /\ to \in PathArgs
  /\ force \in BOOLEAN
  /\ format \in Formats
  /\ doc \in Docs
  /\ fs \in InitialFs
  /\ fs0 = fs
  /\ buf = << >>
  /\ kv = [stmt |-> 1, item |-> 1]
  /\ result = "none"
  /\ user = NoUser
  /\ ioerr = FALSE
  /\ ck = IdleCk
  /\ pk = IdlePk

Next == WriteDocument

Spec == Init /\ [][Next]_vars

---------------------------------------------------------------------------
(* document/mod.rs: get_creation_info *)

UserNames == { "Jane Doe", "Bob" }
UserEmails == { "jane@x.io" }
UserOutcomes ==
  { NoUser } \cup
  { [ok |-> TRUE, name |-> n, email |-> e] :
      n \in UserNames, e \in {None} \cup { Some(m) : m \in UserEmails } }

ToolCreator == "Tool: cargo-spdx 0.1.0"

\* format!("Persion: {}{}", name, email.map(|s| format!(" ({})", s)).unwrap_or_default())
PersonCreator(u) ==
  "Persion: " \o u.name \o (IF u.email.some THEN " (" \o u.email.v \o ")" ELSE "")

\* Mutant: the lookup's error is propagated (get_current_user()?).
GetCreationInfo_LookupErrorPropagated(u, now) ==
  [ ok |-> u.ok,
    license_list_version |-> None,
    creators |-> (IF u.ok THEN << PersonCreator(u) >> ELSE << >>) \o << ToolCreator >>,
    created |-> now,
    creator_comment |-> None ]

\* get_creation_info(), given the outcome u of get_current_user() and the
\* current instant.
GetCreationInfo(u, now) ==
  [ ok |-> TRUE,
    license_list_version |-> None,
    creators |-> (IF u.ok THEN << PersonCreator(u) >> ELSE << >>) \o << ToolCreator >>,
    created |-> now,
    creator_comment |-> None ]

---------------------------------------------------------------------------
(* main.rs: the workspace-SBOM flow *)

\* DocumentCreationInformation::default() of spdx_rs.
DefaultDoc ==
  [ spdx_version |-> "SPDX-2.2",
    data_license |-> "CC0-1.0",
    spdx_identifier |-> "SPDXRef-DOCUMENT",
    document_name |-> "NOASSERTION",
    spdx_document_namespace |-> "NOASSERTION",
    license_list_version |-> None,
    creators |-> << >>,
    created |-> "",
    creator_comment |-> None,
    document_comment |-> None ]

Instants == { "2022-01-01 00:00:00 UTC" }
HostUrls == { "https://spdx.org/spdxdocs/x" }

\* main.rs 44-56: the output manager, from --output or from the metadata.
MainOutputManager ==
  /\ pc = "main"
  /\ \/ \E p \in PathArgs :
          to' = p /\ pc' = "main_doc_name" /\ result' = result
     \/ \E md \in {"exec failed", "no root package"} \cup RootNames :
          IF md \in RootNames
          THEN to' = << md \o Extension(format) >> /\ pc' = "main_doc_name"
               /\ result' = result
          ELSE to' = to /\ Finish("Err: " \o md)
  /\ UNCHANGED <<force, format, doc, fs, fs0, buf, kv, user, ioerr, ck, pk>>

\* main.rs 58-64: document_name = to.file_name().unwrap()...
MainDocumentName ==
  /\ pc = "main_doc_name"
  /\ IF FileName(to).some
     THEN /\ doc' = [doc EXCEPT !.document_name = FileName(to).v]
          /\ pc' = "main_creation_info" /\ result' = result
     ELSE /\ doc' = doc
          /\ pc' = "panicked" /\ result' = "panic: called Option::unwrap() on a None value"
  /\ UNCHANGED <<to, force, format, fs, fs0, buf, kv, user, ioerr, ck, pk>>

\* main.rs 65: creation_info: get_creation_info()?
MainCreationInfo ==
  /\ pc = "main_creation_info"
  /\ \E u \in UserOutcomes, now \in Instants :
       LET ci == GetCreationInfo(u, now) IN
         /\ user' = u
         /\ IF ci.ok
            THEN /\ doc' = [doc EXCEPT !.license_list_version = ci.license_list_version,
                                       !.creators = ci.creators,
                                       !.created = ci.created,
                                       !.creator_comment = ci.creator_comment]
                 /\ pc' = "main_host_url" /\ result' = result
            ELSE doc' = doc /\ Finish("Err: creation info")
  /\ UNCHANGED <<to, force, format, fs, fs0, buf, kv, ioerr, ck, pk>>

\* main.rs 66-80: the namespace from host_url()?, the document, and the
\* call of write_document.
MainBuildDocument ==
  /\ pc = "main_host_url"
  /\ \E h \in {"invalid host url"} \cup HostUrls :
       IF h \in HostUrls
       THEN /\ doc' = [doc EXCEPT !.spdx_document_namespace = h]
            /\ pc' = "wd_validate" /\ result' = result
       ELSE doc' = doc /\ Finish("Err: " \o h)
  /\ UNCHANGED <<to, force, format, fs, fs0, buf, kv, user, ioerr, ck, pk>>

InitMain ==
  /\ pc = "main"
  /\ to = << >>
  /\ force \in BOOLEAN
  /\ format \in Formats
  /\ doc = DefaultDoc
  /\ fs \in InitialFs
  /\ fs0 = fs
  /\ buf = << >>
  /\ kv = [stmt |-> 1, item |-> 1]
  /\ result = "none"
  /\ user = NoUser
  /\ ioerr = FALSE
  /\ ck = IdleCk
  /\ pk = IdlePk

NextMain ==
  \/ MainOutputManager
  \/ MainDocumentName
  \/ MainCreationInfo
  \/ MainBuildDocument
  \/ WriteDocument

SpecMain == InitMain /\ [][NextMain]_vars

---------------------------------------------------------------------------
(* document/mod.rs: calculate_checksums *)

MaxFileLen == 4
MaxChunk == 2
Bytes == {0, 1}
FileContents == SeqsUpTo(Bytes, MaxFileLen)

\* A hasher is the data fed to it so far; finalize() is the digest of that
\* data, hex::encode its lowercase hexadecimal text.  The digest functions
\* are ideal: the digest of a byte string names the algorithm and the string.
HasherNew == << >>
HasherUpdate(h, data) == h \o data
Finalize(alg, h) == [alg |-> alg, of |-> h]
HexEncode(d) == [hex |-> d]

Checksum(alg, value) == [algorithm |-> alg, value |-> value]

\* mod.rs 109-111: open the file, make the two hashers.
CkOpen ==
  /\ ck.pc = "open"
  /\ \E ok \in BOOLEAN :
       ck' = IF ok
             THEN [ck EXCEPT !.pc = "copy", !.sha256 = HasherNew, !.sha1 = HasherNew]
             ELSE [ck EXCEPT !.pc = "done", !.result = [ok |-> FALSE, sums |-> << >>]]
  /\ UNCHANGED <<wdVars, pk>>

\* mod.rs 112: io::copy(&mut file, &mut sha256)?, one read at a time.
CkCopy ==
  /\ ck.pc = "copy"
  /\ ck.pos < Len(ck.content)
  /\ \/ \E n \in 1..MaxChunk :
          LET m == IF ck.pos + n > Len(ck.content) THEN Len(ck.content) - ck.pos ELSE n
              chunk == SubSeq(ck.content, ck.pos + 1, ck.pos + m)
          IN ck' = [ck EXCEPT !.pos = @ + m, !.sha256 = HasherUpdate(@, chunk)]
     \/ ck' = [ck EXCEPT !.pc = "done", !.result = [ok |-> FALSE, sums |-> << >>]]
  /\ UNCHANGED <<wdVars, pk>>

\* mod.rs 113-124: end of file: finalize both hashers, return the records.
CkFinish ==
  /\ ck.pc = "copy"
  /\ ck.pos = Len(ck.content)
  /\ LET sha256_hash == Finalize("SHA256", ck.sha256)
         sha1_hash == Finalize("SHA1", ck.sha1)
     IN ck' = [ck EXCEPT !.pc = "done",
                         !.result = [ok |-> TRUE,
                                     sums |-> << Checksum("SHA1", HexEncode(sha1_hash)),
                                                 Checksum("SHA256", HexEncode(sha256_hash)) >>]]
  /\ UNCHANGED <<wdVars, pk>>

IdleWd ==
  /\ pc = "idle"
  /\ to = << >>
  /\ force = FALSE
  /\ format = "KeyValue"
  /\ doc = DefaultDoc
  /\ fs = [q \in FilePaths |-> Absent]
  /\ fs0 = fs
  /\ buf = << >>
  /\ kv = [stmt |-> 1, item |-> 1]
  /\ result = "none"
  /\ user = NoUser
  /\ ioerr = FALSE

InitChecksum ==
  /\ IdleWd
  /\ \E c \in FileContents :
       ck = [pc |-> "open", content |-> c, pos |-> 0, sha1 |-> << >>, sha256 |-> << >>,
             result |-> [ok |-> FALSE, sums |-> << >>]]
  /\ pk = IdlePk

NextChecksum ==
  \/ CkOpen
  \/ CkCopy
  \/ CkFinish

SpecChecksum == InitChecksum /\ [][NextChecksum]_vars

---------------------------------------------------------------------------
(* document/mod.rs: PackageInformation::from_metadata_package *)

MaxVer == 1
MaxCalls == 2
NOASSERTION == "NOASSERTION"

Digit(n) == CASE n = 0 -> "0" [] n = 1 -> "1" [] n = 2 -> "2" [] n = 3 -> "3"
              [] n = 4 -> "4" [] n = 5 -> "5" [] n = 6 -> "6" [] n = 7 -> "7"
              [] n = 8 -> "8" [] n = 9 -> "9"

\* Display of an unsigned integer.
RECURSIVE NatToString(_)
NatToString(n) == IF n < 10 THEN Digit(n) ELSE NatToString(n \div 10) \o Digit(n % 10)

\* Display of semver::Version: major.minor.patch[-pre]
VersionToString(v) ==
  NatToString(v.major) \o "." \o NatToString(v.minor) \o "." \o NatToString(v.patch)
    \o (IF v.pre = "" THEN "" ELSE "-" \o v.pre)

VerNums == { 0, MaxVer, 10 + MaxVer }
Versions == [major : VerNums, minor : VerNums, patch : {0, MaxVer}, pre : {"", "alpha.1"}]
PkgNames == { "serde", "tokio-util" }
PkgMetas ==
  [ name : PkgNames, version : Versions,
    homepage : {None, Some("https://serde.rs")} ]

\* Mutant: the identifier and the locator leave the version out.
FromMetadataPackage_NoVersion(package) ==
  [ package_name |-> package.name,
    package_spdx_identifier |-> "SPDXRef-" \o package.name,
    package_version |-> Some(VersionToString(package.version)),
    package_download_location |-> NOASSERTION,
    package_checksum |-> << >>,
    package_home_page |-> package.homepage,
    concluded_license |-> "NOASSERTION",
    declared_license |-> "NOASSERTION",
    copyright_text |-> NOASSERTION,
    external_reference |->
      << [ reference_category |-> "PackageManager",
           reference_type |-> "purl",
           reference_locator |-> "pkg:cargo/" \o package.name,
           reference_comment |-> None ] >>,
    files |-> << >> ]

\* mod.rs 46-78
FromMetadataPackage(package) ==
  [ package_name |-> package.name,
    package_spdx_identifier |->
      "SPDXRef-" \o package.name \o "-" \o VersionToString(package.version),
    package_version |-> Some(VersionToString(package.version)),
    package_download_location |-> NOASSERTION,
    package_checksum |-> << >>,
    package_home_page |-> package.homepage,
    concluded_license |-> "NOASSERTION",
    declared_license |-> "NOASSERTION",
    copyright_text |-> NOASSERTION,
    external_reference |->
      << [ reference_category |-> "PackageManager",
           reference_type |-> "purl",
           reference_locator |->
             "pkg:cargo/" \o package.name \o "@" \o VersionToString(package.version),
           reference_comment |-> None ] >>,
    files |-> << >> ]

\* One call of from_metadata_package on the record.
PkCall ==
  /\ Len(pk.results) < MaxCalls
  /\ pk' = [pk EXCEPT !.results = Append(@, FromMetadataPackage(pk.meta))]
  /\ UNCHANGED <<wdVars, ck>>

InitPackage ==
  /\ IdleWd
  /\ ck = IdleCk
  /\ \E m \in PkgMetas : pk = [meta |-> m, results |-> << >>]

NextPackage == PkCall

SpecPackage == InitPackage /\ [][NextPackage]_vars

---------------------------------------------------------------------------
(* Properties *)

IsPrefix(a, b) == Len(a) <= Len(b) /\ SubSeq(b, 1, Len(a)) = a

OptLine(key, o) == IF o.some THEN << key \o o.v >> ELSE << >>

\* The key-value text of a document, line by line, as the format fixes it.
ExpectedKvLines(d) ==
  << "SPDXVersion: " \o d.spdx_version,
     "DataLicense: " \o d.data_license,
     "SPDXID: " \o d.spdx_identifier,
     "DocumentName: " \o d.document_name,
     "DocumentNamespace: " \o d.spdx_document_namespace >>
  \o OptLine("LicenseListVersion: ", d.license_list_version)
  \o [i \in 1..Len(d.creators) |-> "Creator: " \o d.creators[i]]
  \o << "Created: " \o d.created >>
  \o OptLine("CreatorComment: ", d.creator_comment)
  \o OptLine("DocumentComment: ", d.document_comment)

\* c is the complete rendering of d in format fmt (Rdf has no rendering).
Rendered(fmt, d, c) ==
  CASE fmt = "KeyValue" -> c = ExpectedKvLines(d)
    [] fmt \in {"Json", "Yaml"} -> c = EncChunks(fmt, d)
    [] fmt = "Rdf" -> FALSE

WasFile == to \in DOMAIN fs0 /\ fs0[to].kind = "file"
WasAbsent == to \in DOMAIN fs0 /\ fs0[to].kind = "absent"

\* C1: once write_document has returned on a destination that was an
\* existing file: without force the result is the already-exists error and
\* the filesystem is as before; with force the file holds the rendering of
\* the document.  On a destination that did not exist the already-exists
\* error is never returned.  (Stated for the runs in which no operation on
\* the file failed.)
C1_ExistingDestination ==
  (pc = "done" /\ ~ioerr) =>
    /\ (WasFile /\ ~force) =>
         (result = "Err: output file already exists" /\ fs = fs0)
    /\ (WasFile /\ force) => Rendered(format, doc, fs[to].content)
    /\ WasAbsent => result # "Err: output file already exists"

\* C2: with the Rdf format write_document leaves the filesystem as it was:
\* the destination is neither created nor truncated nor written.
C2_RdfTouchesNothing ==
  format = "Rdf" => fs = fs0

\* C3: calculate_checksums returns [SHA1, SHA256], each the digest of its
\* algorithm over the whole content of the file.
C3_BothDigestsOfContent ==
  (ck.pc = "done" /\ ck.result.ok) =>
    ck.result.sums =
      << Checksum("SHA1", HexEncode(Finalize("SHA1", ck.content))),
         Checksum("SHA256", HexEncode(Finalize("SHA256", ck.content))) >>

\* C4: after a successful identity lookup the creators are
\* ["Person: N (E)", tool], or ["Person: N", tool] without an email.
C4_PersonCreator ==
  (user.ok /\ doc.creators # << >>) =>
    doc.creators =
      << "Person: " \o user.name
           \o (IF user.email.some THEN " (" \o user.email.v \o ")" ELSE ""),
         "Tool: cargo-spdx 0.1.0" >>

NonToolEntries(cs) == { i \in 1..Len(cs) : cs[i] # "Tool: cargo-spdx 0.1.0" }

\* C5: get_creation_info never fails; after it the creators list is
\* non-empty, has at most one entry besides the tool creator, ends with the
\* tool creator, and is exactly [tool] when the identity lookup failed.
C5_CreationInfoNeverFails ==
  /\ result # "Err: creation info"
  /\ pc \in {"main_host_url", "wd_validate"} =>
       /\ doc.creators # << >>
       /\ doc.creators[Len(doc.creators)] = "Tool: cargo-spdx 0.1.0"
       /\ Cardinality(NonToolEntries(doc.creators)) <= 1
       /\ NonToolEntries(doc.creators) \subseteq {1}
       /\ ~user.ok => doc.creators = << "Tool: cargo-spdx 0.1.0" >>

C5_Witness ==
  /\ pc = "wd_validate"
  /\ ~user.ok
  /\ doc.creators = << "Tool: cargo-spdx 0.1.0" >>

\* C6: a destination with no file name, or one that is an existing
\* directory, is rejected by the validation: write_document never reaches
\* the writer, the filesystem stays as it was, and the result is the
\* validation's error, whatever the format and the force flag.
C6_InvalidDestinationRejected ==
  (~FileName(to).some \/ IsDirPath(fs0, to)) =>
    /\ pc \in {"wd_validate", "done"}
    /\ fs = fs0
    /\ pc = "done" =>
         result = (IF ~FileName(to).some THEN "Err: missing output file name"
                   ELSE "Err: output can't be a directory")

C6_Witness ==
  /\ pc = "done"
  /\ FileName(to).some /\ IsDirPath(fs0, to)
  /\ force
  /\ result = "Err: output can't be a directory"

\* C7: write_document returns Ok only when the complete rendering is in
\* the destination file (stated for the key-value format, whose serializer
\* is write() of key_value.rs).
C7_OkMeansWritten ==
  (pc = "done" /\ result = "Ok" /\ format = "KeyValue") =>
    Rendered(format, doc, fs[to].content)

\* C8: the workspace flow never panics; a path with no file name ends in
\* the "missing output file name" error of write_document.
C8_NoPanic ==
  /\ pc # "panicked"
  /\ (pc = "done" /\ to # << >> /\ ~FileName(to).some) =>
       result = "Err: missing output file name"

\* C9: every call of from_metadata_package on a record with name N and
\* version V gives the identifier "SPDXRef-N-V", exactly one external
\* reference (package-manager, "purl", "pkg:cargo/N@V"), NOASSERTION as
\* download location and copyright text, and all calls give equal packages.
C9_PackageFromMetadata ==
  \A i \in 1..Len(pk.results) :
    LET p == pk.results[i]
        N == pk.meta.name
        V == VersionToString(pk.meta.version)
    IN /\ p.package_spdx_identifier = "SPDXRef-" \o N \o "-" \o V
       /\ Len(p.external_reference) = 1
       /\ p.external_reference[1].reference_category = "PackageManager"
       /\ p.external_reference[1].reference_type = "purl"
       /\ p.external_reference[1].reference_locator = "pkg:cargo/" \o N \o "@" \o V
       /\ p.package_download_location = "NOASSERTION"
       /\ p.copyright_text = "NOASSERTION"
       /\ p = pk.results[1]
       /\ (N = "serde" /\ pk.meta.version = [major |-> 0, minor |-> 0, patch |-> 0, pre |-> ""])
            => /\ p.package_spdx_identifier = "SPDXRef-serde-0.0.0"
               /\ p.external_reference[1].reference_locator = "pkg:cargo/serde@0.0.0"

C9_Witness ==
  /\ Len(pk.results) = MaxCalls
  /\ pk.meta.name = "tokio-util"
  /\ pk.meta.version.major >= 10
  /\ pk.meta.version.pre # ""

\* What the buffered writer has accepted: the file's content and the buffer.
Accepted == fs[to].content \o buf

InKvWrite ==
  /\ format = "KeyValue"
  /\ \/ pc \in {"kv", "wd_drop"}
     \/ pc = "done" /\ result \in {"Ok", "Err: write failed"}

\* C10: the lines the key-value serializer has written are at every moment
\* a prefix of the document's lines in the fixed order; it returns Ok with
\* all of them written, and returns a write error with a proper prefix
\* written, the line whose write failed being the next one of the order.
C10_KvOrderAndPrefix ==
  InKvWrite =>
    /\ IsPrefix(Accepted, ExpectedKvLines(doc))
    /\ IsPrefix(fs[to].content, ExpectedKvLines(doc))
    /\ result = "Ok" => Accepted = ExpectedKvLines(doc)
    /\ result = "Err: write failed" => Len(Accepted) < Len(ExpectedKvLines(doc))
    /\ result = "Err: write failed" =>
         LET st == KvStmts(doc)[kv.stmt]
             failed == IF st.kind = "all" THEN KvLine(st.key, doc.creators[kv.item])
                       ELSE KvLine(st.key, st.val.v)
         IN ExpectedKvLines(doc)[Len(Accepted) + 1] = failed

C10_Witness ==
  /\ pc = "done" /\ format = "KeyValue"
  /\ result = "Err: write failed"
  /\ Len(doc.creators) = MaxCreators
  /\ doc.license_list_version.some /\ ~doc.creator_comment.some
  /\ Len(fs[to].content) >= 7

====
